---- MODULE Spec2Model ----
(***************************************************************************)
(* A model of the trading-agent repository: the order reconciliation loop  *)
(* of tradingModule.individual_trade_execution against a broker, and the   *)
(* port allocator and process supervision of main.py.                      *)
(*                                                                         *)
(* Prices and quantities are integers in thousandths (99.00 is 99000, the  *)
(* quantity 1 is 1000), so that rounding to two decimals is a real         *)
(* operation.  Python's None is the value None below; a local variable     *)
(* that was never assigned is "UNBOUND" (reading it raises                 *)
(* UnboundLocalError).                                                     *)
(***************************************************************************)
EXTENDS Integers, Sequences, FiniteSets, TLC

VARIABLES
    \* ---- tradingModule.individual_trade_execution ----
    tpc,            \* position of the trader process
    error,          \* the exception that ended the trader process, or "none"
    last_buy, last_sell, last_qty,
    latest_market_make, \* the entry of the ticker in the snapshot last received
    buy_price, sell_price,
    skipped,        \* the last received snapshot hit the `continue` of line 146
    position,       \* execute_trade's local: None or the position's qty
    order_req,      \* execute_trade's local: Unbound or a LimitOrderRequest
    orders,         \* execute_trade's local: the list get_orders returned
    idx,            \* place of the `for order in orders` loop
    order,          \* the loop's local `order`: "UNBOUND", "None" or "Order"
    calls,          \* the broker calls issued since the last snapshot was received
    brokerPos,      \* broker: the open position's qty, or None
    brokerOrders,   \* broker: the open orders of the ticker
    \* ---- main.py ----
    next_free_port, max_port, child_processes,
    opc,            \* position of the orchestrator (__main__)
    exc,            \* the exception the orchestrator ended with, or "none"
    ret,            \* the last register_process_with_port call: input and outcome
    reg,            \* number of register_process_with_port calls made
    k,              \* place of the current `for process in child_processes` loop
    pstate,         \* per registered process: "initial", "alive" or "exited"
    signalled,      \* the processes terminate() was called on
    \* ---- dataModule.py and the sockets ----
    pub_i,              \* per ticker: the publisher's loop counter i
    sub_queue,          \* per ticker: what the manager's SUB socket holds unread
    mpc,                \* manager: 0 asleep, j receiving on consume_sockets[j]
    m_mark,             \* the last i published on that socket's channel when the receive began
    latest_price,       \* manager: the tick last received
    aggregated_prices,  \* manager: the dict being filled
    sent,               \* the snapshot last sent on the aggregate channel
    n_sent,             \* number of snapshots sent
    out_queue,          \* per consumer: what its SUB socket holds unread
    cpc,                \* per consumer: "recv" or "busy"
    c_mark,             \* per consumer: the snapshot last sent when its receive began
    latest_prices,      \* per consumer: the snapshot last received
    connected           \* the subscribers (by ticker, by consumer) whose connect() has completed

tvars == <<tpc, error, last_buy, last_sell, last_qty, latest_market_make,
           buy_price, sell_price,
           skipped, position, order_req, orders, idx, order, calls,
           brokerPos, brokerOrders>>
ovars == <<next_free_port, max_port, child_processes, opc, exc, ret, reg, k,
           pstate, signalled>>
pvars == <<pub_i, sub_queue, mpc, m_mark, latest_price, aggregated_prices, sent,
           n_sent, out_queue, cpc, c_mark, latest_prices, connected>>
vars == <<tvars, ovars, pvars>>

None == -1

\* ------------------------------------------------------------------------
\* Bounds and input sets
\* ------------------------------------------------------------------------
MaxOpen == 3                         \* open orders the broker may start with
Ticker == "AAPL"
Symbols == {"AAPL", "GOOGL"}         \* symbol field of the received entry
Prices == {100000, 100100}           \* 100.0 + i/10
Ages == {0, 5, 6}                    \* time.time() - last_update, in seconds
PositionQtys == {None, 1000, 2000}
OrderSides == {"BUY", "SELL"}
OrderPrices == {99000, 99004, 99006, 101000}
OrderQtys == {1000, 1004, 2000}
OrderTifs == {"DAY", "GTC"}

NumTickers == 2                      \* len(tickers) in __main__
PortSpan == 3                        \* max_port is drawn up to InitialPort + PortSpan
MaxCalls == 5                        \* register calls made on one ChildrenProcessesData
MaxTick == 3                         \* ticks a publisher sends

Spread == 1000
BuyQuantity == 1000
StaleThreshold == 5
InitialPort == 13140

\* ------------------------------------------------------------------------
\* Pure helpers of execute_trade
\* ------------------------------------------------------------------------
\* No snapshot received yet.
NoEntry == [symbol |-> "", price |-> 0, age |-> 0]

Unbound == [side |-> "UNBOUND", limit_price |-> 0, qty |-> 0, time_in_force |-> "UNBOUND"]

\* round(float(x), 2) on thousandths: the nearest hundredth, a tie to the even one.
Round2(x) ==
    LET q == x \div 10
        r == x % 10
    IN  IF r < 5 THEN 10 * q
        ELSE IF r > 5 THEN 10 * (q + 1)
        ELSE IF q % 2 = 0 THEN 10 * q ELSE 10 * (q + 1)

\* MakeOrderReq selling the configured buy quantity, not the position's.
MakeOrderReq_SellBuyQuantity(pos, bp, sp) ==
    IF pos = None /\ bp # None
    THEN [side |-> "BUY", limit_price |-> bp, qty |-> BuyQuantity, time_in_force |-> "DAY"]
    ELSE IF pos # None /\ sp # None
    THEN [side |-> "SELL", limit_price |-> sp, qty |-> BuyQuantity, time_in_force |-> "DAY"]
    ELSE Unbound

\* Lines 59-76: the order request, left unassigned when neither branch is taken.
MakeOrderReq(pos, bp, sp) ==
    IF pos = None /\ bp # None
    THEN [side |-> "BUY", limit_price |-> bp, qty |-> BuyQuantity, time_in_force |-> "DAY"]
    ELSE IF pos # None /\ sp # None
    THEN [side |-> "SELL", limit_price |-> sp, qty |-> pos, time_in_force |-> "DAY"]
    ELSE Unbound

\* Differs with the prices and quantities compared as they are, unrounded.
Differs_Unrounded(req, o) ==
    \/ req.side # o.side
    \/ req.limit_price # o.limit_price
    \/ req.qty # o.qty
    \/ req.time_in_force # o.time_in_force

\* Lines 102-105: the existing order differs from the request.
Differs(req, o) ==
    \/ req.side # o.side
    \/ Round2(req.limit_price) # Round2(o.limit_price)
    \/ Round2(req.qty) # Round2(o.qty)
    \/ req.time_in_force # o.time_in_force

\* SameAsLast with the quantity left out of the comparison.
SameAsLast_PricesOnly(bp, sp, q, lb, ls, lq) == bp = lb /\ sp = ls

\* Line 144: the computed triple equals the one of the last executed cycle.
SameAsLast(bp, sp, q, lb, ls, lq) == bp = lb /\ sp = ls /\ q = lq

\* IsStale with >= for >.
IsStale_AtThreshold(age) == age >= StaleThreshold

\* Line 139: the tick is stale.
IsStale(age) == age > StaleThreshold

RECURSIVE AsList(_)
\* The open orders as the list get_orders returns, by id.
AsList(S) ==
    IF S = {} THEN <<>>
    ELSE LET o == CHOOSE x \in S : \A y \in S : x.id <= y.id
         IN  <<o>> \o AsList(S \ {o})

FreshId == CHOOSE i \in 1..(MaxOpen + 2) : \A o \in brokerOrders : o.id # i

Call(op, id, ok) == [op |-> op, id |-> id, ok |-> ok]

\* Finish with the last triple updated only when execute_trade returned.
Finish_UpdateOnReturn(result) ==
    /\ order' = (IF result = "raised" THEN order ELSE result)
    /\ IF result = "raised"
       THEN UNCHANGED <<last_buy, last_sell, last_qty>>
       ELSE last_buy' = buy_price /\ last_sell' = sell_price /\ last_qty' = BuyQuantity
    /\ IF order' = "UNBOUND"
       THEN tpc' = "dead" /\ error' = "UnboundLocalError"
       ELSE tpc' = "recv" /\ error' = error

\* Lines 149-154: what follows the call of execute_trade.  result is what the
\* call returned ("None" or "Order") or "raised"; a raise leaves `order` as it
\* was, and `isinstance(order, Order)` on a never-assigned `order` raises.
Finish(result) ==
    /\ order' = (IF result = "raised" THEN order ELSE result)
    /\ last_buy' = buy_price
    /\ last_sell' = sell_price
    /\ last_qty' = BuyQuantity
    /\ IF order' = "UNBOUND"
       THEN tpc' = "dead" /\ error' = "UnboundLocalError"
       ELSE tpc' = "recv" /\ error' = error

\* ------------------------------------------------------------------------
\* The trader's steps
\* ------------------------------------------------------------------------
TraderInit ==
    /\ tpc = "recv"
    /\ error = "none"
    /\ last_buy = None /\ last_sell = None /\ last_qty = None
    /\ latest_market_make = NoEntry
    /\ buy_price = None /\ sell_price = None
    /\ skipped = FALSE
    /\ position = None
    /\ order_req = Unbound
    /\ orders = <<>>
    /\ idx = 0
    /\ order = "UNBOUND"
    /\ calls = <<>>
    /\ brokerPos \in PositionQtys
    /\ \E n \in 0..MaxOpen, s \in OrderSides, p \in OrderPrices, q \in OrderQtys, t \in OrderTifs :
          brokerOrders = { [id |-> i, side |-> s, limit_price |-> p, qty |-> q,
                            time_in_force |-> t] : i \in 1..n }

\* Lines 127-146: receive a snapshot, compute the triple, skip or go on.
Recv(symbol, price, age) ==
    /\ tpc = "recv"
    /\ UNCHANGED <<ovars, pvars>>
    /\ position' = None /\ order_req' = Unbound /\ orders' = <<>> /\ idx' = 0
    /\ calls' = <<>>
    /\ latest_market_make' = [symbol |-> symbol, price |-> price, age |-> age]
    /\ UNCHANGED <<last_buy, last_sell, last_qty, order, brokerPos, brokerOrders>>
    /\ IF symbol # Ticker
       THEN /\ tpc' = "dead" /\ error' = "ValueError"
            /\ skipped' = FALSE
            /\ UNCHANGED <<buy_price, sell_price>>
       ELSE /\ buy_price' = (IF IsStale(age) THEN None ELSE price - Spread)
            /\ sell_price' = (IF IsStale(age) THEN None ELSE price + Spread)
            /\ skipped' = SameAsLast(buy_price', sell_price', BuyQuantity,
                                     last_buy, last_sell, last_qty)
            /\ tpc' = (IF skipped' THEN "recv" ELSE "getpos")
            /\ error' = error

\* Lines 51-76: the position query and the order request.
GetPosition(r) ==
    /\ tpc = "getpos"
    /\ UNCHANGED <<ovars, pvars>>
    /\ calls' = Append(calls, Call("get_open_position", 0, r = "ok"))
    /\ UNCHANGED <<latest_market_make, buy_price, sell_price, skipped, orders, idx, brokerPos, brokerOrders>>
    /\ CASE r = "ok" ->
              /\ position' = brokerPos
              /\ order_req' = MakeOrderReq(brokerPos, buy_price, sell_price)
              /\ tpc' = "getorders"
              /\ UNCHANGED <<error, last_buy, last_sell, last_qty, order>>
         [] r = "api_error" ->
              /\ UNCHANGED <<position, order_req>>
              /\ Finish("None")
         [] r = "other_error" ->
              /\ UNCHANGED <<position, order_req>>
              /\ Finish("raised")

\* Lines 79-114 up to the first cancel: the open-orders query and the branch on
\* the number of orders returned.
GetOrders(r) ==
    /\ tpc = "getorders"
    /\ UNCHANGED <<ovars, pvars>>
    /\ calls' = Append(calls, Call("get_orders", 0, r = "ok"))
    /\ UNCHANGED <<latest_market_make, buy_price, sell_price, skipped, position, order_req, brokerPos, brokerOrders>>
    /\ IF r # "ok"
       THEN /\ UNCHANGED <<orders, idx>>
            /\ Finish("None")
       ELSE /\ orders' = AsList(brokerOrders)
            /\ CASE Len(orders') > 1 ->
                      /\ idx' = 1
                      /\ tpc' = "cancel_bizarre"
                      /\ UNCHANGED <<error, last_buy, last_sell, last_qty, order>>
                 [] Len(orders') = 1 ->
                      /\ idx' = 1
                      /\ IF order_req = Unbound
                         THEN Finish("raised")
                         ELSE IF Differs(order_req, orders'[1])
                         THEN /\ tpc' = "cancel_existing"
                              /\ UNCHANGED <<error, last_buy, last_sell, last_qty, order>>
                         ELSE Finish("None")
                 [] OTHER ->
                      /\ idx' = 0
                      /\ tpc' = "submit"
                      /\ UNCHANGED <<error, last_buy, last_sell, last_qty, order>>

\* CancelBizarre with a return after the loop: the cycle ends once the last
\* bizarre order is cancelled.
CancelBizarre_ReturnAfterLoop(r) ==
    /\ tpc = "cancel_bizarre"
    /\ UNCHANGED <<ovars, pvars>>
    /\ calls' = Append(calls, Call("cancel_order_by_id", orders[idx].id, r = "ok"))
    /\ UNCHANGED <<latest_market_make, buy_price, sell_price, skipped, position, order_req, orders, brokerPos>>
    /\ IF r = "ok"
       THEN /\ brokerOrders' = {o \in brokerOrders : o.id # orders[idx].id}
            /\ idx' = idx + 1
            /\ IF idx = Len(orders)
               THEN Finish("None")
               ELSE /\ tpc' = "cancel_bizarre"
                    /\ UNCHANGED <<error, last_buy, last_sell, last_qty, order>>
       ELSE /\ UNCHANGED <<brokerOrders, idx>>
            /\ Finish("None")

\* CancelBizarre with a break in the loop: only the first bizarre order is
\* cancelled before the submission.
CancelBizarre_FirstOnly(r) ==
    /\ tpc = "cancel_bizarre"
    /\ UNCHANGED <<ovars, pvars>>
    /\ calls' = Append(calls, Call("cancel_order_by_id", orders[idx].id, r = "ok"))
    /\ UNCHANGED <<latest_market_make, buy_price, sell_price, skipped, position, order_req, orders, brokerPos>>
    /\ IF r = "ok"
       THEN /\ brokerOrders' = {o \in brokerOrders : o.id # orders[idx].id}
            /\ idx' = idx + 1
            /\ tpc' = "submit"
            /\ UNCHANGED <<error, last_buy, last_sell, last_qty, order>>
       ELSE /\ UNCHANGED <<brokerOrders, idx>>
            /\ Finish("None")

\* Lines 91-97: one turn of the loop over the bizarre orders.
CancelBizarre(r) ==
    /\ tpc = "cancel_bizarre"
    /\ UNCHANGED <<ovars, pvars>>
    /\ calls' = Append(calls, Call("cancel_order_by_id", orders[idx].id, r = "ok"))
    /\ UNCHANGED <<latest_market_make, buy_price, sell_price, skipped, position, order_req, orders, brokerPos>>
    /\ IF r = "ok"
       THEN /\ brokerOrders' = {o \in brokerOrders : o.id # orders[idx].id}
            /\ idx' = idx + 1
            /\ tpc' = (IF idx = Len(orders) THEN "submit" ELSE "cancel_bizarre")
            /\ UNCHANGED <<error, last_buy, last_sell, last_qty, order>>
       ELSE /\ UNCHANGED <<brokerOrders, idx>>
            /\ Finish("None")

\* CancelExisting without the return in the except: a failed cancel is
\* followed by the submission.
CancelExisting_SubmitAnyway(r) ==
    /\ tpc = "cancel_existing"
    /\ UNCHANGED <<ovars, pvars>>
    /\ calls' = Append(calls, Call("cancel_order_by_id", orders[1].id, r = "ok"))
    /\ UNCHANGED <<latest_market_make, buy_price, sell_price, skipped, position, order_req, orders, idx, brokerPos>>
    /\ brokerOrders' = (IF r = "ok" THEN {o \in brokerOrders : o.id # orders[1].id}
                                   ELSE brokerOrders)
    /\ tpc' = "submit"
    /\ UNCHANGED <<error, last_buy, last_sell, last_qty, order>>

\* Lines 106-110: cancel the one existing order that differs.
CancelExisting(r) ==
    /\ tpc = "cancel_existing"
    /\ UNCHANGED <<ovars, pvars>>
    /\ calls' = Append(calls, Call("cancel_order_by_id", orders[1].id, r = "ok"))
    /\ UNCHANGED <<latest_market_make, buy_price, sell_price, skipped, position, order_req, orders, idx, brokerPos>>
    /\ IF r = "ok"
       THEN /\ brokerOrders' = {o \in brokerOrders : o.id # orders[1].id}
            /\ tpc' = "submit"
            /\ UNCHANGED <<error, last_buy, last_sell, last_qty, order>>
       ELSE /\ UNCHANGED brokerOrders
            /\ Finish("None")

\* Lines 117-121: the submission.  With order_req unassigned the argument's
\* evaluation raises inside the try and no call reaches the broker; in that
\* case and when the broker's call fails, new_order is unassigned at the return.
SubmitOrder(r) ==
    /\ tpc = "submit"
    /\ UNCHANGED <<ovars, pvars>>
    /\ UNCHANGED <<latest_market_make, buy_price, sell_price, skipped, position, order_req, orders, idx, brokerPos>>
    /\ IF order_req = Unbound
       THEN /\ r = "error"
            /\ UNCHANGED <<calls, brokerOrders>>
            /\ Finish("raised")
       ELSE /\ calls' = Append(calls, Call("submit_order", 0, r = "ok"))
            /\ IF r = "ok"
               THEN /\ brokerOrders' = brokerOrders \cup
                          {[id |-> FreshId, side |-> order_req.side,
                            limit_price |-> order_req.limit_price,
                            qty |-> order_req.qty,
                            time_in_force |-> order_req.time_in_force]}
                    /\ Finish("Order")
               ELSE /\ UNCHANGED brokerOrders
                    /\ Finish("raised")

TraderNext ==
    \/ \E symbol \in Symbols, price \in Prices, age \in Ages : Recv(symbol, price, age)
    \/ \E r \in {"ok", "api_error", "other_error"} : GetPosition(r)
    \/ \E r \in {"ok", "error"} : GetOrders(r)
    \/ \E r \in {"ok", "error"} : CancelBizarre(r)
    \/ \E r \in {"ok", "error"} : CancelExisting(r)
    \/ \E r \in {"ok", "error"} : SubmitOrder(r)

\* ------------------------------------------------------------------------
\* main.py: ChildrenProcessesData and register_process_with_port
\* ------------------------------------------------------------------------
NoCall == [need_port |-> FALSE, port |-> None, raised |-> FALSE]

\* Lines 25-31: the constructor; a range with initial_port > max_port raises
\* and leaves no object.
CpdInit ==
    /\ next_free_port = InitialPort
    /\ max_port \in (InitialPort - 1)..(InitialPort + PortSpan)
    /\ ~(next_free_port > max_port)
    /\ child_processes = <<>>
    /\ pstate = <<>>
    /\ ret = NoCall

\* register_process_with_port without the increment of next_free_port.
register_NoIncrement(target, need_port) ==
    IF need_port /\ next_free_port > max_port
    THEN /\ ret' = [need_port |-> need_port, port |-> None, raised |-> TRUE]
         /\ UNCHANGED <<next_free_port, child_processes, pstate>>
    ELSE LET new_port == IF need_port THEN next_free_port ELSE None
         IN  /\ next_free_port' = next_free_port
             /\ child_processes' = Append(child_processes, [target |-> target, port |-> new_port])
             /\ pstate' = Append(pstate, "initial")
             /\ ret' = [need_port |-> need_port, port |-> new_port, raised |-> FALSE]

\* register_process_with_port with the range test off by one (>= for >).
register_OffByOne(target, need_port) ==
    IF need_port /\ next_free_port >= max_port
    THEN /\ ret' = [need_port |-> need_port, port |-> None, raised |-> TRUE]
         /\ UNCHANGED <<next_free_port, child_processes, pstate>>
    ELSE LET new_port == IF need_port THEN next_free_port ELSE None
         IN  /\ next_free_port' = (IF need_port THEN next_free_port + 1 ELSE next_free_port)
             /\ child_processes' = Append(child_processes, [target |-> target, port |-> new_port])
             /\ pstate' = Append(pstate, "initial")
             /\ ret' = [need_port |-> need_port, port |-> new_port, raised |-> FALSE]

\* Lines 49-65: one call.  A raise leaves the object as it was.
register_process_with_port(target, need_port) ==
    IF need_port /\ next_free_port > max_port
    THEN /\ ret' = [need_port |-> need_port, port |-> None, raised |-> TRUE]
         /\ UNCHANGED <<next_free_port, child_processes, pstate>>
    ELSE LET new_port == IF need_port THEN next_free_port ELSE None
         IN  /\ next_free_port' = (IF need_port THEN next_free_port + 1 ELSE next_free_port)
             /\ child_processes' = Append(child_processes, [target |-> target, port |-> new_port])
             /\ pstate' = Append(pstate, "initial")
             /\ ret' = [need_port |-> need_port, port |-> new_port, raised |-> FALSE]

\* Any caller: one more call, with or without a port.
RegisterCall(need_port) ==
    /\ opc = "calls"
    /\ reg < MaxCalls
    /\ register_process_with_port("worker", need_port)
    /\ reg' = reg + 1
    /\ UNCHANGED <<max_port, opc, exc, k, signalled>>
    /\ UNCHANGED <<tvars, pvars>>

\* ------------------------------------------------------------------------
\* main.py: __main__
\* ------------------------------------------------------------------------
\* Lines 72-107: the registrations __main__ makes, in order.
Plan ==
    [i \in 1..NumTickers |-> [target |-> "realtime_price_publisher", need_port |-> TRUE]]
    \o <<[target |-> "realtime_prices_manager", need_port |-> TRUE],
         [target |-> "realtime_price_display_consumer", need_port |-> FALSE]>>
    \o [i \in 1..NumTickers |-> [target |-> "individual_trade_execution", need_port |-> FALSE]]

Procs == 1..Len(child_processes)
\* process.is_alive(): False before start() and after the exit.
IsAlive(i) == pstate[i] = "alive"

\* Lines 72-107: the next registration; its exception is caught nowhere and
\* ends __main__ before line 110.
MainRegister ==
    /\ opc = "register"
    /\ register_process_with_port(Plan[reg + 1].target, Plan[reg + 1].need_port)
    /\ IF ret'.raised
       THEN opc' = "done" /\ exc' = "Exception" /\ reg' = reg /\ k' = k
       ELSE /\ reg' = reg + 1
            /\ exc' = exc
            /\ IF reg' = Len(Plan) THEN opc' = "start" /\ k' = 1 ELSE opc' = opc /\ k' = k
    /\ UNCHANGED <<max_port, signalled>>
    /\ UNCHANGED <<tvars, pvars>>

\* Lines 113-114: start the next process.  An Exception is caught at line 120
\* and a KeyboardInterrupt is not; the finally block runs after both.
StartProcess(r) ==
    /\ opc = "start"
    /\ CASE r = "ok" ->
              /\ pstate' = [pstate EXCEPT ![k] = "alive"]
              /\ IF k = Len(child_processes) THEN opc' = "supervise" /\ k' = 0
                                             ELSE opc' = opc /\ k' = k + 1
              /\ exc' = exc
         [] r = "Exception" ->
              /\ opc' = "terminate" /\ k' = 1 /\ exc' = exc
              /\ UNCHANGED pstate
         [] r = "KeyboardInterrupt" ->
              /\ opc' = "terminate" /\ k' = 1 /\ exc' = "KeyboardInterrupt"
              /\ UNCHANGED pstate
    /\ UNCHANGED <<next_free_port, max_port, child_processes, ret, reg, signalled>>
    /\ UNCHANGED <<tvars, pvars>>

\* Supervise with any() for all(): the loop goes on while some process is alive.
Supervise_WhileAny ==
    /\ opc = "supervise"
    /\ ~(\E i \in Procs : IsAlive(i))
    /\ opc' = "terminate" /\ k' = 1
    /\ UNCHANGED <<next_free_port, max_port, child_processes, exc, ret, reg, pstate, signalled>>
    /\ UNCHANGED <<tvars, pvars>>

\* Line 117: the loop ends when some process is not alive (while all are
\* alive it sleeps and polls again).
Supervise ==
    /\ opc = "supervise"
    /\ ~(\A i \in Procs : IsAlive(i))
    /\ opc' = "terminate" /\ k' = 1
    /\ UNCHANGED <<next_free_port, max_port, child_processes, exc, ret, reg, pstate, signalled>>
    /\ UNCHANGED <<tvars, pvars>>

\* Lines 117-118 interrupted (KeyboardInterrupt): not caught at line 120.
SuperviseInterrupted ==
    /\ opc = "supervise"
    /\ opc' = "terminate" /\ k' = 1 /\ exc' = "KeyboardInterrupt"
    /\ UNCHANGED <<next_free_port, max_port, child_processes, ret, reg, pstate, signalled>>
    /\ UNCHANGED <<tvars, pvars>>

\* Lines 124-126: one turn of the terminate loop.
TerminateStep ==
    /\ opc = "terminate"
    /\ signalled' = (IF IsAlive(k) THEN signalled \cup {k} ELSE signalled)
    /\ IF k = Len(child_processes) THEN opc' = "join" /\ k' = 1
                                   ELSE opc' = opc /\ k' = k + 1
    /\ UNCHANGED <<next_free_port, max_port, child_processes, exc, ret, reg, pstate>>
    /\ UNCHANGED <<tvars, pvars>>

\* Lines 129-132: one turn of the join loop.  join() returns once the process
\* has exited and raises AssertionError ("can only join a started process")
\* on a process that start() never launched.
JoinStep ==
    /\ opc = "join"
    /\ pstate[k] # "alive"
    /\ IF pstate[k] = "initial"
       THEN opc' = "done" /\ exc' = "AssertionError" /\ k' = k
       ELSE /\ exc' = exc
            /\ IF k = Len(child_processes) THEN opc' = "done" /\ k' = k
                                           ELSE opc' = opc /\ k' = k + 1
    /\ UNCHANGED <<next_free_port, max_port, child_processes, ret, reg, pstate, signalled>>
    /\ UNCHANGED <<tvars, pvars>>

\* A worker ends on its own (its main loop raised).
WorkerExits(i) ==
    /\ opc \in {"start", "supervise", "terminate", "join"}
    /\ IsAlive(i) /\ i \notin signalled
    /\ pstate' = [pstate EXCEPT ![i] = "exited"]
    /\ UNCHANGED <<next_free_port, max_port, child_processes, opc, exc, ret, reg, k, signalled>>
    /\ UNCHANGED <<tvars, pvars>>

\* A worker that terminate() signalled exits.
WorkerTerminated(i) ==
    /\ i \in signalled /\ IsAlive(i)
    /\ pstate' = [pstate EXCEPT ![i] = "exited"]
    /\ UNCHANGED <<next_free_port, max_port, child_processes, opc, exc, ret, reg, k, signalled>>
    /\ UNCHANGED <<tvars, pvars>>

\* ------------------------------------------------------------------------
\* dataModule.py: publishers, manager, consumers
\* ------------------------------------------------------------------------
TickerNames == <<"AAPL", "GOOGL", "AMZN", "MSFT", "TSLA">>
Tickers == {TickerNames[j] : j \in 1..NumTickers}
Consumers == {"realtime_price_display_consumer", "individual_trade_execution"}

BasePrice == 100000                  \* 100.0, line 26 of dataModule.py
PriceStep == 100                     \* i/10 for one i, line 26 of dataModule.py

NoTick == [symbol |-> "", price |-> 0, time |-> 0]
NoSnapshot == [s \in Tickers |-> NoTick]

\* Lines 25-31 of dataModule.py: the i-th tick; its time is the instant of the
\* i-th send, counted in sends.
get_realtime_price(ticker, i) ==
    [symbol |-> ticker, price |-> BasePrice + PriceStep * i, time |-> i]

\* A socket without zmq.CONFLATE: every message is queued.
Deliver_Queued(queue, msg) == Append(queue, msg)

\* A SUB socket with zmq.CONFLATE set to 1 takes a message: it keeps only
\* the latest.
Deliver(queue, msg) == <<msg>>

PipeInit ==
    /\ pub_i = [s \in Tickers |-> 0]
    /\ sub_queue = [s \in Tickers |-> <<>>]
    /\ mpc = 1
    /\ m_mark = 0
    /\ latest_price = NoTick
    /\ aggregated_prices = NoSnapshot
    /\ sent = NoSnapshot
    /\ n_sent = 0
    /\ out_queue = [c \in Consumers |-> <<>>]
    /\ cpc = [c \in Consumers |-> "recv"]
    /\ c_mark = [c \in Consumers |-> NoSnapshot]
    /\ latest_prices = [c \in Consumers |-> NoSnapshot]
    /\ connected = {}

\* socket.connect (dataModule.py lines 75 and 116, tradingModule.py line 47)
\* completes in the background; a PUB socket sends to the subscribers
\* connected at the time of the send.
Connect(x) ==
    /\ x \notin connected
    /\ connected' = connected \cup {x}
    /\ UNCHANGED <<pub_i, sub_queue, mpc, m_mark, latest_price, aggregated_prices, sent,
                   n_sent, out_queue, cpc, c_mark, latest_prices>>
    /\ UNCHANGED <<tvars, ovars>>

\* publish_socket.send_json(latest_prices), line 89: every connected consumer
\* takes the snapshot.
Broadcast(snapshot) ==
    [c \in Consumers |-> IF c \in connected THEN Deliver(out_queue[c], snapshot)
                                            ELSE out_queue[c]]

\* realtime_price_publisher, lines 36-40: one turn of the loop.
Publish(s) ==
    /\ pub_i[s] < MaxTick
    /\ pub_i' = [pub_i EXCEPT ![s] = pub_i[s] + 1]
    /\ sub_queue' = IF s \in connected
                    THEN [sub_queue EXCEPT ![s] = Deliver(sub_queue[s], get_realtime_price(s, pub_i'[s]))]
                    ELSE sub_queue
    /\ UNCHANGED <<mpc, m_mark, latest_price, aggregated_prices, sent, n_sent,
                   out_queue, cpc, c_mark, latest_prices, connected>>
    /\ UNCHANGED <<tvars, ovars>>

\* ManagerRecv with a receive that reads the latest value and leaves it in
\* place, returning it again when nothing newer has come.
ManagerRecv_Peek ==
    /\ mpc \in 1..NumTickers
    /\ sub_queue[TickerNames[mpc]] # <<>>
    /\ latest_price' = Head(sub_queue[TickerNames[mpc]])
    /\ UNCHANGED sub_queue
    /\ LET filled == [aggregated_prices EXCEPT ![latest_price'.symbol] = latest_price']
       IN  IF mpc < NumTickers
           THEN /\ aggregated_prices' = filled
                /\ mpc' = mpc + 1
                /\ m_mark' = pub_i[TickerNames[mpc + 1]]
                /\ UNCHANGED <<sent, n_sent, out_queue>>
           ELSE /\ sent' = filled
                /\ n_sent' = n_sent + 1
                /\ out_queue' = Broadcast(filled)
                /\ aggregated_prices' = NoSnapshot
                /\ mpc' = 0
                /\ m_mark' = 0
    /\ n_sent < MaxTick
    /\ UNCHANGED <<pub_i, cpc, c_mark, latest_prices, connected>>
    /\ UNCHANGED <<tvars, ovars>>

\* ManagerRecv with a receive that does not block: a socket holding nothing
\* is passed over.
ManagerRecv_NoBlock ==
    /\ mpc \in 1..NumTickers
    /\ n_sent < MaxTick
    /\ LET q == sub_queue[TickerNames[mpc]]
           got == IF q = <<>> THEN latest_price ELSE Head(q)
           filled == IF q = <<>> THEN aggregated_prices
                     ELSE [aggregated_prices EXCEPT ![got.symbol] = got]
       IN  /\ latest_price' = got
           /\ sub_queue' = [sub_queue EXCEPT ![TickerNames[mpc]] = IF q = <<>> THEN q ELSE Tail(q)]
           /\ IF mpc < NumTickers
              THEN /\ aggregated_prices' = filled
                   /\ mpc' = mpc + 1
                   /\ m_mark' = pub_i[TickerNames[mpc + 1]]
                   /\ UNCHANGED <<sent, n_sent, out_queue>>
              ELSE /\ sent' = filled
                   /\ n_sent' = n_sent + 1
                   /\ out_queue' = Broadcast(filled)
                   /\ aggregated_prices' = NoSnapshot
                   /\ mpc' = 0
                   /\ m_mark' = 0
    /\ UNCHANGED <<pub_i, cpc, c_mark, latest_prices, connected>>
    /\ UNCHANGED <<tvars, ovars>>

\* realtime_prices_manager, lines 78-90: one recv_json of get_aggregated_prices,
\* which blocks while the socket holds nothing and takes what it holds; after
\* the last socket the dict is sent and the manager sleeps.
ManagerRecv ==
    /\ mpc \in 1..NumTickers
    /\ sub_queue[TickerNames[mpc]] # <<>>
    /\ latest_price' = Head(sub_queue[TickerNames[mpc]])
    /\ sub_queue' = [sub_queue EXCEPT ![TickerNames[mpc]] = Tail(sub_queue[TickerNames[mpc]])]
    /\ LET filled == [aggregated_prices EXCEPT ![latest_price'.symbol] = latest_price']
       IN  IF mpc < NumTickers
           THEN /\ aggregated_prices' = filled
                /\ mpc' = mpc + 1
                /\ m_mark' = pub_i[TickerNames[mpc + 1]]
                /\ UNCHANGED <<sent, n_sent, out_queue>>
           ELSE /\ sent' = filled
                /\ n_sent' = n_sent + 1
                /\ out_queue' = Broadcast(filled)
                /\ aggregated_prices' = NoSnapshot
                /\ mpc' = 0
                /\ m_mark' = 0
    /\ UNCHANGED <<pub_i, cpc, c_mark, latest_prices, connected>>
    /\ UNCHANGED <<tvars, ovars>>

\* realtime_prices_manager, lines 87-90: the sleep is over and the next
\* get_aggregated_prices begins.
ManagerWake ==
    /\ mpc = 0
    /\ mpc' = 1
    /\ m_mark' = pub_i[TickerNames[1]]
    /\ UNCHANGED <<pub_i, sub_queue, latest_price, aggregated_prices, sent, n_sent,
                   out_queue, cpc, c_mark, latest_prices, connected>>
    /\ UNCHANGED <<tvars, ovars>>

\* A consumer's recv_json (dataModule.py line 130, tradingModule.py line 127):
\* blocks while its socket holds nothing and takes what it holds.
ConsumerRecv(c) ==
    /\ cpc[c] = "recv"
    /\ out_queue[c] # <<>>
    /\ latest_prices' = [latest_prices EXCEPT ![c] = Head(out_queue[c])]
    /\ out_queue' = [out_queue EXCEPT ![c] = Tail(out_queue[c])]
    /\ cpc' = [cpc EXCEPT ![c] = "busy"]
    /\ UNCHANGED <<pub_i, sub_queue, mpc, m_mark, latest_price, aggregated_prices,
                   sent, n_sent, c_mark, connected>>
    /\ UNCHANGED <<tvars, ovars>>

\* The consumer is done with the snapshot (printed, or the trade cycle ran)
\* and calls recv_json again.
ConsumerLoop(c) ==
    /\ cpc[c] = "busy"
    /\ cpc' = [cpc EXCEPT ![c] = "recv"]
    /\ c_mark' = [c_mark EXCEPT ![c] = sent]
    /\ UNCHANGED <<pub_i, sub_queue, mpc, m_mark, latest_price, aggregated_prices,
                   sent, n_sent, out_queue, latest_prices, connected>>
    /\ UNCHANGED <<tvars, ovars>>

\* ------------------------------------------------------------------------
\* Specifications
\* ------------------------------------------------------------------------
\* The part of the state a specification does not exercise.
OrchIdle ==
    /\ next_free_port = InitialPort /\ max_port = InitialPort /\ child_processes = <<>>
    /\ opc = "idle" /\ exc = "none" /\ ret = NoCall /\ reg = 0 /\ k = 0
    /\ pstate = <<>> /\ signalled = {}

TraderIdle ==
    /\ tpc = "idle" /\ error = "none"
    /\ last_buy = None /\ last_sell = None /\ last_qty = None
    /\ latest_market_make = NoEntry
    /\ buy_price = None /\ sell_price = None
    /\ skipped = FALSE /\ position = None /\ order_req = Unbound
    /\ orders = <<>> /\ idx = 0 /\ order = "UNBOUND" /\ calls = <<>>
    /\ brokerPos = None /\ brokerOrders = {}

PipeIdle ==
    /\ pub_i = <<>> /\ sub_queue = <<>> /\ mpc = 0 /\ m_mark = 0
    /\ latest_price = NoTick /\ aggregated_prices = <<>> /\ sent = <<>>
    /\ n_sent = 0 /\ out_queue = <<>> /\ cpc = <<>> /\ c_mark = <<>>
    /\ latest_prices = <<>> /\ connected = {}

InitTrader == TraderInit /\ OrchIdle /\ PipeIdle

\* One trader process against the broker.
SpecTrader == InitTrader /\ [][TraderNext]_vars

InitPorts ==
    /\ CpdInit
    /\ opc = "calls" /\ exc = "none" /\ reg = 0 /\ k = 0 /\ signalled = {}
    /\ TraderIdle /\ PipeIdle

PortsNext == \E need_port \in BOOLEAN : RegisterCall(need_port)

\* Any sequence of register_process_with_port calls on one object.
SpecPorts == InitPorts /\ [][PortsNext]_vars

InitOrch ==
    /\ CpdInit
    /\ opc = "register" /\ exc = "none" /\ reg = 0 /\ k = 0 /\ signalled = {}
    /\ TraderIdle /\ PipeIdle

OrchNext ==
    \/ MainRegister
    \/ \E r \in {"ok", "Exception", "KeyboardInterrupt"} : StartProcess(r)
    \/ Supervise
    \/ SuperviseInterrupted
    \/ TerminateStep
    \/ JoinStep
    \/ \E i \in Procs : WorkerExits(i)
    \/ \E i \in Procs : WorkerTerminated(i)

\* __main__ and its child processes.
SpecOrch == InitOrch /\ [][OrchNext]_vars

\* The same, with the orchestrator running on and a signalled child exiting.
SpecOrchFair ==
    /\ SpecOrch
    /\ WF_vars(Supervise)
    /\ WF_vars(TerminateStep)
    /\ WF_vars(JoinStep)
    /\ \A i \in 1..Len(Plan) : WF_vars(WorkerTerminated(i))

InitPipe == PipeInit /\ TraderIdle /\ OrchIdle

PipeNext ==
    \/ \E x \in Tickers \cup Consumers : Connect(x)
    \/ \E s \in Tickers : Publish(s)
    \/ ManagerRecv
    \/ ManagerWake
    \/ \E c \in Consumers : ConsumerRecv(c)
    \/ \E c \in Consumers : ConsumerLoop(c)

\* The publishers, the manager and two consumers of the aggregate channel.
SpecPipe == InitPipe /\ [][PipeNext]_vars

\* ------------------------------------------------------------------------
\* Reading a finished cycle off the state
\* ------------------------------------------------------------------------
Issued(op) == \E i \in 1..Len(calls) : calls[i].op = op
FailedCall(op) == \E i \in 1..Len(calls) : calls[i].op = op /\ ~calls[i].ok
NoCallFailed == \A i \in 1..Len(calls) : calls[i].ok
CancelCalls == SelectSeq(calls, LAMBDA c : c.op = "cancel_order_by_id")
SubmitCalls == SelectSeq(calls, LAMBDA c : c.op = "submit_order")
\* A cycle that went past line 146 has ended.
CycleEnded == tpc \in {"recv", "dead"} /\ calls # <<>>
\* ... and its open-orders query returned more than one order.
AnomalyCycle == CycleEnded /\ Len(orders) > 1
\* ... and its position query was answered and left no order request.
NoneIntentCycle == CycleEnded /\ calls[1].ok /\ order_req = Unbound
AllCancelled == Len(CancelCalls) = Len(orders) /\ \A j \in 1..Len(CancelCalls) : CancelCalls[j].ok

C2_SubmitFailureSurvived ==
    (CycleEnded /\ FailedCall("submit_order")) => (tpc = "recv" /\ error = "none")

\* C3 (as stated): a cycle whose intent is NONE issues no submit and ends
\* with the trader alive and back at receiving the next snapshot.
C3_NoneIntentSurvived ==
    NoneIntentCycle => (~Issued("submit_order") /\ tpc = "recv" /\ error = "none")

\* C4: a received snapshot whose triple equals the last executed cycle's is
\* skipped with no broker call, the last triple and the broker untouched, and
\* the trader back at receiving; while no cycle has been executed (the last
\* triple is empty) a received snapshot is never skipped.
C4_IdempotenceShortCircuit ==
    [][ (tpc = "recv" /\ error' = "none") =>
            /\ (buy_price' = last_buy /\ sell_price' = last_sell /\ BuyQuantity = last_qty)
                  => /\ tpc' = "recv" /\ skipped' /\ calls' = <<>>
                     /\ UNCHANGED <<last_buy, last_sell, last_qty, brokerPos, brokerOrders>>
            /\ (last_qty = None => (~skipped' /\ tpc' = "getpos")) ]_vars

C4_Witness ==
    tpc = "recv" /\ skipped /\ calls = <<>> /\ last_qty = BuyQuantity /\ last_buy # None

\* C5 (as stated): after every cycle, skipped ones included, in which no
\* broker call failed, the broker holds at most one open order.
C5_AtMostOneAfterAnyCycle ==
    (tpc \in {"recv", "dead"} /\ (skipped \/ calls # <<>>) /\ NoCallFailed)
        => Cardinality(brokerOrders) <= 1

\* C5 (amended): after every cycle that was not skipped and in which no
\* broker call failed, the broker holds at most one open order, whatever
\* number it held before.
C5_AtMostOneAfterExecutedCycle ==
    (CycleEnded /\ NoCallFailed) => Cardinality(brokerOrders) <= 1

C5_Witness ==
    /\ CycleEnded /\ NoCallFailed /\ Len(orders) = 3
    /\ Cardinality(brokerOrders) = 1

\* C6: with exactly one open order and an order request built, the cycle
\* issues neither cancel nor submit when side, limit price rounded to two
\* decimals, quantity rounded to two decimals and time in force all agree,
\* and issues a cancel of that order when any of the four differs.
C6_OrderEqualityNoOp ==
    (CycleEnded /\ Len(orders) = 1 /\ order_req # Unbound) =>
        IF /\ order_req.side = orders[1].side
           /\ Round2(order_req.limit_price) = Round2(orders[1].limit_price)
           /\ Round2(order_req.qty) = Round2(orders[1].qty)
           /\ order_req.time_in_force = orders[1].time_in_force
        THEN Len(CancelCalls) = 0 /\ Len(SubmitCalls) = 0 /\ Len(calls) = 2
        ELSE Len(CancelCalls) = 1 /\ CancelCalls[1].id = orders[1].id

C6_Witness ==
    /\ CycleEnded /\ Len(orders) = 1 /\ order_req # Unbound
    /\ orders[1].limit_price # order_req.limit_price
    /\ orders[1].qty # order_req.qty
    /\ Len(calls) = 2 /\ NoCallFailed
\* C7: once every worker is started and some worker is no longer alive, the
\* supervision ends and eventually every registered worker has exited (those
\* still alive having been sent termination) and __main__ has finished.
C7_FailTogether ==
    (opc = "supervise" /\ \E i \in Procs : ~IsAlive(i))
        ~> (opc = "done" /\ \A i \in Procs : pstate[i] = "exited")

C7_Witness ==
    /\ opc = "done" /\ exc = "none" /\ reg = Len(Plan)
    /\ \A i \in Procs : pstate[i] = "exited"
    /\ Cardinality(signalled) = Len(Plan) - 1

\* C8 (as stated): however __main__ leaves the start and supervise part, the
\* cleanup ends without an error and no registered worker is alive after it.
C8_GuaranteedCleanup ==
    (opc = "done" /\ reg = Len(Plan)) =>
        (exc # "AssertionError" /\ \A i \in Procs : ~IsAlive(i))

\* C9: over the calls made on one object, every port returned to a call with
\* need_port lies in [initial_port, max_port] and is greater than every port
\* returned before; a call without need_port returns no port and leaves
\* next_free_port as it was; next_free_port never decreases.
C9_PortUniqueness ==
    [][ /\ next_free_port' >= next_free_port
        /\ next_free_port' <= max_port + 1
        /\ IF ret'.need_port
           THEN \/ ret'.raised
                \/ /\ ret'.port \in InitialPort..max_port
                   /\ \A i \in Procs : child_processes[i].port # None
                                           => child_processes[i].port < ret'.port
                   /\ child_processes'[Len(child_processes')].port = ret'.port
           ELSE /\ ~ret'.raised /\ ret'.port = None
                /\ next_free_port' = next_free_port ]_vars

C9_Witness ==
    /\ \E i, j, m \in Procs :
          /\ i < j
          /\ child_processes[i].port = InitialPort
          /\ child_processes[j].port = max_port
          /\ child_processes[m].port = None
    /\ ret.raised

\* C10: a call with need_port made when next_free_port = max_port returns
\* max_port and leaves next_free_port above max_port; a call with need_port
\* made when next_free_port > max_port raises, leaves next_free_port and the
\* process list as they were, and ends __main__; no process has been started
\* when a call has raised.
C10_PortBounds ==
    [][ /\ opc = "register" =>
            /\ (ret'.need_port /\ next_free_port = max_port)
                  => /\ ~ret'.raised /\ ret'.port = max_port
                     /\ next_free_port' > max_port
                     /\ Len(child_processes') = Len(child_processes) + 1
            /\ (ret'.need_port /\ next_free_port > max_port)
                  => /\ ret'.raised
                     /\ UNCHANGED <<next_free_port, child_processes, pstate>>
                     /\ opc' = "done"
        /\ ret'.raised => \A i \in 1..Len(pstate') : pstate'[i] = "initial" ]_vars

C10_Witness ==
    /\ ret.raised /\ opc = "done" /\ exc = "Exception"
    /\ Len(child_processes) >= 2
    /\ child_processes[Len(child_processes)].port = max_port
    /\ \A i \in Procs : pstate[i] = "initial"
\* C11: every submit follows an answered position query of the same cycle
\* and carries the order derived from it: with no position a BUY limit at
\* price - spread for the configured quantity, with a position a SELL limit
\* at price + spread for the position's full quantity, both DAY; and a cycle
\* with a fresh tick, no position and zero open orders issues exactly one
\* submit, of that BUY, which on success is the broker's one open order.
C11_IntentDerivation ==
    /\ Issued("submit_order") =>
          /\ calls[1].op = "get_open_position" /\ calls[1].ok
          /\ position = brokerPos
          /\ latest_market_make.age <= StaleThreshold
          /\ IF position = None
             THEN order_req = [side |-> "BUY",
                               limit_price |-> latest_market_make.price - Spread,
                               qty |-> BuyQuantity, time_in_force |-> "DAY"]
             ELSE order_req = [side |-> "SELL",
                               limit_price |-> latest_market_make.price + Spread,
                               qty |-> position, time_in_force |-> "DAY"]
    /\ (/\ CycleEnded /\ Len(calls) >= 2 /\ calls[1].ok /\ calls[2].ok
        /\ position = None /\ orders = <<>>
        /\ latest_market_make.age <= StaleThreshold)
          => /\ Len(SubmitCalls) = 1 /\ Len(calls) = 3
             /\ order_req.side = "BUY"
             /\ order_req.limit_price = latest_market_make.price - Spread
             /\ order_req.qty = BuyQuantity
             /\ SubmitCalls[1].ok =>
                   /\ Cardinality(brokerOrders) = 1
                   /\ \A o \in brokerOrders : o.side = "BUY" /\ o.qty = BuyQuantity
                         /\ o.limit_price = latest_market_make.price - Spread

C11_Witness ==
    /\ CycleEnded /\ Len(SubmitCalls) = 1 /\ SubmitCalls[1].ok
    /\ position = 2000 /\ order_req.side = "SELL" /\ order_req.qty = 2000
    /\ order_req.limit_price = 101100

\* C12: after a snapshot for the ticker is received, with age > 5 both
\* buy_price and sell_price are unset and no submit is issued, and with
\* age <= 5 they are price - spread and price + spread.
C12_StalenessFlattening ==
    latest_market_make.symbol = Ticker =>
        IF latest_market_make.age > StaleThreshold
        THEN buy_price = None /\ sell_price = None /\ ~Issued("submit_order")
        ELSE /\ buy_price = latest_market_make.price - Spread
             /\ sell_price = latest_market_make.price + Spread

C12_Witness ==
    /\ CycleEnded /\ tpc = "recv"
    /\ latest_market_make.symbol = Ticker /\ latest_market_make.age = 6
    /\ buy_price = None /\ sell_price = None /\ NoCallFailed /\ Len(calls) >= 2

\* C14 (as stated): a cycle whose intent is NONE and whose open-orders query
\* returned exactly one order issues a cancel of that order and no submit,
\* and a successful cancel leaves no open order.
C14_NoneIntentCancels ==
    (NoneIntentCycle /\ Len(orders) = 1) =>
        /\ Len(CancelCalls) = 1
        /\ CancelCalls[1].id = orders[1].id
        /\ ~Issued("submit_order")
        /\ CancelCalls[1].ok => brokerOrders = {}

\* C15: when a cycle that was not skipped has ended, whatever its outcome,
\* the last triple is the one computed in it; and a snapshot received next
\* with the same triple is skipped with no broker call.
C15_LastIntentUpdated ==
    [][ /\ CycleEnded' =>
              (last_buy' = buy_price' /\ last_sell' = sell_price' /\ last_qty' = BuyQuantity)
        /\ (/\ tpc = "recv" /\ calls # <<>>
            /\ latest_market_make'.symbol = Ticker
            /\ buy_price' = buy_price /\ sell_price' = sell_price)
              => (skipped' /\ tpc' = "recv" /\ calls' = <<>> /\ brokerOrders' = brokerOrders) ]_vars

C15_Witness ==
    /\ CycleEnded /\ tpc = "recv" /\ FailedCall("submit_order")
    /\ buy_price # None /\ last_buy = buy_price /\ last_sell = sell_price

\* C16: once a cancel has failed in a cycle, with one order or several
\* returned, that cancel is the cycle's last broker call, no submit is
\* issued, and the trader is alive and receiving the next snapshot.
C16_CancelFailureAborts ==
    FailedCall("cancel_order_by_id") =>
        /\ ~Issued("submit_order")
        /\ calls[Len(calls)].op = "cancel_order_by_id" /\ ~calls[Len(calls)].ok
        /\ tpc = "recv" /\ error = "none"

C16_Witness ==
    /\ FailedCall("cancel_order_by_id") /\ Len(orders) = 1 /\ Len(calls) = 3
    /\ order_req # Unbound /\ tpc = "recv" /\ brokerOrders # {}

\* C17 (as stated): a position query that ended in an error other than
\* 'position not found' is the cycle's only broker call and leaves the trader
\* alive; a failed open-orders query is followed by no cancel and no submit.
C17_QueryErrorsAbortCycle ==
    /\ (CycleEnded /\ ~calls[1].ok) => (Len(calls) = 1 /\ tpc = "recv" /\ error = "none")
    /\ (CycleEnded /\ FailedCall("get_orders")) =>
          (Len(calls) = 2 /\ tpc = "recv" /\ error = "none")

\* C20: within a cycle the broker calls are the position query, the
\* open-orders query, the cancels, and at most one submit, each issued after
\* the one before it has returned successfully; a submit is issued only when
\* every order the open-orders query returned has been cancelled
\* successfully (or none was returned), so that the submitted order is then
\* the only open one.
C20_CallOrder ==
    /\ \A i \in 1..Len(calls) :
          /\ (i = 1) <=> (calls[i].op = "get_open_position")
          /\ (i = 2) <=> (calls[i].op = "get_orders")
          /\ i < Len(calls) => (calls[i].ok /\ calls[i].op # "submit_order")
    /\ Len(SubmitCalls) <= 1
    /\ Issued("submit_order") =>
          /\ Len(CancelCalls) = Len(orders)
          /\ \A j \in 1..Len(orders) : CancelCalls[j].id = orders[j].id /\ CancelCalls[j].ok
          /\ SubmitCalls[1].ok => Cardinality(brokerOrders) = 1

C20_Witness ==
    /\ CycleEnded /\ Len(orders) = 1 /\ Len(calls) = 4
    /\ Len(SubmitCalls) = 1 /\ SubmitCalls[1].ok

\* ------------------------------------------------------------------------
\* Claims about the data pipeline
\* ------------------------------------------------------------------------
AllSubscribers == Tickers \cup Consumers

\* C13: every conflating subscriber holds at most one unread value, so a
\* receive returns one value; the value returned is never older than the last
\* one published on the channel when the receive began, and never older than
\* the one the previous receive on that channel returned. It holds for the
\* manager on each ticker's channel and for both consumers of the aggregate
\* channel.
C13_ConflateDelivery ==
    [][ /\ \A s \in Tickers : Len(sub_queue'[s]) <= 1
        /\ \A c \in Consumers : Len(out_queue'[c]) <= 1
        /\ (mpc \in 1..NumTickers /\ mpc' # mpc) =>
              /\ latest_price'.symbol = TickerNames[mpc]
              /\ latest_price'.time >= m_mark
              /\ latest_price'.time >= sent[TickerNames[mpc]].time
        /\ \A c \in Consumers :
              (cpc[c] = "recv" /\ cpc'[c] = "busy") =>
                 \A s \in Tickers :
                    /\ latest_prices'[c][s].time >= c_mark[c][s].time
                    /\ latest_prices'[c][s].time >= latest_prices[c][s].time
      ]_vars

\* The manager has just received the third tick of the first ticker, the one
\* before having been the first: the second was discarded unread.
C13_Witness ==
    /\ mpc = 2
    /\ latest_price = get_realtime_price(TickerNames[1], 3)
    /\ sent[TickerNames[1]] = get_realtime_price(TickerNames[1], 1)

\* C18 as stated: the manager never waits on a channel that has reported
\* before; when it comes to receive on such a channel there is a tick to take,
\* the last one if nothing newer was published.
C18_StaleTickReReported ==
    \A j \in 1..NumTickers :
        (mpc = j /\ sent[TickerNames[j]] # NoTick) => sub_queue[TickerNames[j]] # <<>>

\* C18, amended: a receive takes the tick out of the socket, so the manager
\* waits on a channel until a tick newer than the one it last took is
\* published. Every snapshot sent has an entry for every ticker and each
\* entry is strictly newer than the entry of the snapshot sent before; no tick
\* is reported twice.
C18_EachSnapshotAllNew ==
    [][ /\ (mpc \in 1..NumTickers /\ mpc' # mpc) =>
              /\ sub_queue[TickerNames[mpc]] # <<>>
              /\ latest_price'.time > sent[TickerNames[mpc]].time
        /\ n_sent' # n_sent =>
              \A s \in Tickers : /\ sent'[s].symbol = s
                                 /\ sent'[s].time > sent[s].time
      ]_vars

\* Two snapshots were sent and the manager is back at the first ticker, whose
\* publisher has published nothing since: the manager waits.
C18_Witness ==
    /\ n_sent = 2
    /\ mpc = 1
    /\ sub_queue[TickerNames[1]] = <<>>
    /\ TickerNames[1] \in connected
    /\ pub_i[TickerNames[1]] = sent[TickerNames[1]].time

\* C19: while some ticker has published nothing, no snapshot has been sent and
\* both consumers are still in their first receive with nothing to take (the
\* trader has run no cycle, so has called the broker not once); every snapshot
\* sent, held unread or received has an entry for every ticker.
C19_FirstTickBlocking ==
    /\ (\E s \in Tickers : pub_i[s] = 0) =>
          /\ n_sent = 0
          /\ sent = NoSnapshot
          /\ \A c \in Consumers : /\ cpc[c] = "recv"
                                  /\ out_queue[c] = <<>>
                                  /\ latest_prices[c] = NoSnapshot
    /\ n_sent > 0 => \A s \in Tickers : sent[s].symbol = s
    /\ \A c \in Consumers :
          /\ latest_prices[c] # NoSnapshot => \A s \in Tickers : latest_prices[c][s].symbol = s
          /\ \A n \in 1..Len(out_queue[c]) : \A s \in Tickers : out_queue[c][n][s].symbol = s

\* Every subscriber is connected, the first publisher has sent all its ticks
\* and the second none: the manager took a tick of the first and waits on the
\* second.
C19_Witness ==
    /\ connected = AllSubscribers
    /\ pub_i[TickerNames[1]] = MaxTick
    /\ pub_i[TickerNames[2]] = 0
    /\ mpc = 2
    /\ aggregated_prices[TickerNames[1]] # NoTick

====
